---------------------------- MODULE Spec2Model ----------------------------
(***************************************************************************)
(* A model of main.py: the yearly mileage graph built from a Strava       *)
(* activities export.  main() runs filter_activities, prints the count    *)
(* line, runs enrich_activities and then create_graph.                     *)
(*                                                                         *)
(* Numbers.  A mileage is a Python float; here it is an exact integer      *)
(* number of micro-miles (1e-6 mile), so that kilometres * 0.621371 is     *)
(* kilometres * 621371.  A value rounded to two decimals is an integer     *)
(* number of hundredths of a mile.  Floating point rounding error of the   *)
(* additions is not modelled.                                              *)
(*                                                                         *)
(* Text.  A timestamp cell of the csv file is the record of its tokens     *)
(* together with the layout the text has; a distance cell is the sequence  *)
(* of its characters.  strptime and float are modelled on these.           *)
(***************************************************************************)
EXTENDS Integers, Sequences, FiniteSets, TLC

VARIABLES
    pc,             \* position of the run: the next step of main / the call in progress
    year,           \* --year
    file,           \* the csv file at --file: whether it can be opened, and its rows
    activity_type,  \* --activity_type
    graph_name,     \* --graph_name
    activities,     \* main's `activities`
    enriched,       \* main's `enriched`
    y_vals_init,    \* create_graph: the per-element cumsum values (line 73)
    cumulative,     \* create_graph: y_vals after line 74, before rounding
    y_vals,         \* create_graph: y_vals after line 75
    figure,         \* pyplot's current figure: line plotted or not, title, annotations
    stdout,         \* the lines printed
    image,          \* the image file of savefig: whether it was written, and its name
    error,          \* the exception that ended the run, or NoError
    events          \* the steps of main entered so far, in order

vars == <<pc, year, file, activity_type, graph_name, activities, enriched,
          y_vals_init, cumulative, y_vals, figure, stdout, image, error, events>>

-----------------------------------------------------------------------------
(* Bounds of the model *)

\* the most rows a csv file has after its first row
MaxDataRows == 2
\* the longest list handed to enrich_activities when it is called directly
MaxActs == 2
\* the longest sequence handed to create_graph when it is called directly
\* (besides the sequences of a whole year)
MaxPoints == 61

(* Program constants *)

\* kilometres to miles, in micro-miles per kilometre (0.621371)
MilesPerKm == 621371
\* a cadence annotation every 30th point
Cadence == 30
\* the cadence annotation is drawn 25 below the point, the final one 20 above
BelowOffset == 25
AboveOffset == 20
\* micro-miles in one hundredth of a mile, and hundredths in a mile
MicroPerHundredth == 10000
HundredthsPerMile == 100

NoError == "NoError"

-----------------------------------------------------------------------------
(* datetime *)

\* datetime's leap year rule (Gregorian calendar)
IsLeap(y) == (y % 4 = 0) /\ ((y % 100 # 0) \/ (y % 400 = 0))

\* datetime's days in a month
DaysInMonth(y, m) ==
    IF m = 2 THEN (IF IsLeap(y) THEN 29 ELSE 28)
    ELSE IF m \in {4, 6, 9, 11} THEN 30 ELSE 31

\* datetime(year, month, day[, hour, minute, second])
DateTime(y, m, d, hh, mm, ss) ==
    [year |-> y, month |-> m, day |-> d, hour |-> hh, minute |-> mm, second |-> ss]

Midnight(y, m, d) == DateTime(y, m, d, 0, 0, 0)

\* a < b on datetimes: lexicographic on (year, month, day, hour, minute, second)
DateLT(a, b) ==
    LET ka == <<a.year, a.month, a.day, a.hour, a.minute, a.second>>
        kb == <<b.year, b.month, b.day, b.hour, b.minute, b.second>>
    IN \E i \in 1..6 : /\ ka[i] < kb[i]
                       /\ \A j \in 1..(i - 1) : ka[j] = kb[j]

\* d + timedelta(days=1): the same time of day on the next calendar day
AddOneDay(d) ==
    IF d.day < DaysInMonth(d.year, d.month)
    THEN [d EXCEPT !.day = d.day + 1]
    ELSE IF d.month < 12
         THEN [d EXCEPT !.month = d.month + 1, !.day = 1]
         ELSE [d EXCEPT !.year = d.year + 1, !.month = 1, !.day = 1]

-----------------------------------------------------------------------------
(* Results of calls that may raise *)

Ok(v) == [ok |-> TRUE, val |-> v, err |-> NoError]
Raise(e) == [ok |-> FALSE, val |-> <<>>, err |-> e]

-----------------------------------------------------------------------------
(* datetime.strptime(date_str, "%b %d, %Y, %I:%M:%S %p") *)

StravaLayout == "b d, Y, I:M:S p"

MonthAbbr == <<"jan", "feb", "mar", "apr", "may", "jun",
               "jul", "aug", "sep", "oct", "nov", "dec">>

\* strptime matches month names and AM/PM whatever their case
CaseFold(tok) ==
    CASE tok \in {"Jan", "JAN"} -> "jan"
      [] tok \in {"Feb", "FEB"} -> "feb"
      [] tok \in {"Mar", "MAR"} -> "mar"
      [] tok \in {"Apr", "APR"} -> "apr"
      [] tok \in {"May", "MAY"} -> "may"
      [] tok \in {"Jun", "JUN"} -> "jun"
      [] tok \in {"Jul", "JUL"} -> "jul"
      [] tok \in {"Aug", "AUG"} -> "aug"
      [] tok \in {"Sep", "SEP"} -> "sep"
      [] tok \in {"Oct", "OCT"} -> "oct"
      [] tok \in {"Nov", "NOV"} -> "nov"
      [] tok \in {"Dec", "DEC"} -> "dec"
      [] tok \in {"AM", "Am"} -> "am"
      [] tok \in {"PM", "Pm"} -> "pm"
      [] OTHER -> tok

\* the text matches the format: layout, month name, field ranges of the directives
MatchesFormat(s) ==
    /\ s.layout = StravaLayout
    /\ \E m \in 1..12 : MonthAbbr[m] = CaseFold(s.mon)
    /\ s.day \in 1..31
    /\ s.year \in 0..9999
    /\ s.hour \in 1..12
    /\ s.minute \in 0..59
    /\ s.second \in 0..61
    /\ CaseFold(s.ampm) \in {"am", "pm"}

\* %I with %p: 12 AM is hour 0, 12 PM is hour 12
Hour24(hour12, ampm) ==
    IF CaseFold(ampm) = "am"
    THEN (IF hour12 = 12 THEN 0 ELSE hour12)
    ELSE (IF hour12 = 12 THEN 12 ELSE hour12 + 12)

strptime(s) ==
    IF ~MatchesFormat(s) THEN Raise("ValueError")
    ELSE LET m == CHOOSE k \in 1..12 : MonthAbbr[k] = CaseFold(s.mon)
         IN IF \/ s.year < 1
               \/ s.day > DaysInMonth(s.year, m)
               \/ s.second > 59
            THEN Raise("ValueError")
            ELSE Ok(DateTime(s.year, m, s.day, Hour24(s.hour, s.ampm),
                             s.minute, s.second))

-----------------------------------------------------------------------------
(* float(kilometers) * 0.621371 *)

Digits == <<"0", "1", "2", "3", "4", "5", "6", "7", "8", "9">>

IsDigit(c) == \E i \in 1..10 : Digits[i] = c

DigitVal(c) == (CHOOSE i \in 1..10 : Digits[i] = c) - 1

RECURSIVE DigitsValue(_, _)
\* the value of a run of digits, most significant first
DigitsValue(cs, acc) ==
    IF cs = <<>> THEN acc
    ELSE DigitsValue(Tail(cs), acc * 10 + DigitVal(Head(cs)))

\* float(text) for a text of digits with an optional sign; anything else raises.
\* The value is in whole kilometres.
float(cs) ==
    LET signed == cs # <<>> /\ Head(cs) \in {"-", "+"}
        body == IF signed THEN Tail(cs) ELSE cs
    IN IF body = <<>> \/ \E i \in DOMAIN body : ~IsDigit(body[i])
       THEN Raise("ValueError")
       ELSE IF signed /\ Head(cs) = "-"
            THEN Ok(0 - DigitsValue(body, 0))
            ELSE Ok(DigitsValue(body, 0))

\* kilometres * 0.621371, in micro-miles
ToMiles(km) == km * MilesPerKm

-----------------------------------------------------------------------------
(* filter_activities *)

\* a variant without line 25: no row is dropped
SkipHeaders_none(rows) == rows

\* next(reader, None): the first row is dropped, whatever it holds
SkipHeaders(rows) == IF rows = <<>> THEN <<>> ELSE Tail(rows)

\* row[i] exists (otherwise the subscript raises IndexError)
HasCol(row, i) == i < row.cols

\* line 31: the row is kept when its label equals the requested one
TypeMatches(label, filter_activity_type) == label = filter_activity_type

\* a variant without the check of line 37
YearMatches_any(date, y) == TRUE

\* line 37: the row is kept when its timestamp is of the requested year
YearMatches(date, y) == date.year = y

\* line 42: the record appended for a row
Activity(date, km) == [date |-> date, mileage |-> ToMiles(km)]

RECURSIVE FilterLoop_skip_bad(_, _, _, _)
\* a variant of the loop that skips a row it cannot parse and goes on
FilterLoop_skip_bad(rows, y, filter_activity_type, acc) ==
    IF rows = <<>> THEN Ok(acc)
    ELSE LET row == Head(rows)
             rest == Tail(rows)
             date == strptime(row.date)
             km == float(row.dist)
         IN IF /\ row.cols = 7
               /\ TypeMatches(row.type, filter_activity_type)
               /\ date.ok
               /\ YearMatches(date.val, y)
               /\ km.ok
            THEN FilterLoop_skip_bad(rest, y, filter_activity_type,
                                     Append(acc, Activity(date.val, km.val)))
            ELSE FilterLoop_skip_bad(rest, y, filter_activity_type, acc)

RECURSIVE FilterLoop(_, _, _, _)
\* the for loop of lines 26-42 over the rows still to read
FilterLoop(rows, y, filter_activity_type, acc) ==
    IF rows = <<>> THEN Ok(acc)
    ELSE LET row == Head(rows)
             rest == Tail(rows)
         IN IF ~HasCol(row, 1) \/ ~HasCol(row, 3) THEN Raise("IndexError")
            ELSE IF ~TypeMatches(row.type, filter_activity_type)
            THEN FilterLoop(rest, y, filter_activity_type, acc)
            ELSE LET date == strptime(row.date)
                 IN IF ~date.ok THEN Raise(date.err)
                    ELSE IF ~YearMatches(date.val, y)
                    THEN FilterLoop(rest, y, filter_activity_type, acc)
                    ELSE IF ~HasCol(row, 6) THEN Raise("IndexError")
                    ELSE LET km == float(row.dist)
                         IN IF ~km.ok THEN Raise(km.err)
                            ELSE FilterLoop(rest, y, filter_activity_type,
                                            Append(acc, Activity(date.val, km.val)))

filter_activities(y, f, filter_activity_type) ==
    IF ~f.exists THEN Raise("FileNotFoundError")
    ELSE FilterLoop(SkipHeaders(f.rows), y, filter_activity_type, <<>>)

-----------------------------------------------------------------------------
(* gen_days *)

\* a variant of the loop condition: while d <= end_date
LoopContinues_inclusive(d, end_date) == ~DateLT(end_date, d)

\* line 118: while d < end_date
LoopContinues(d, end_date) == DateLT(d, end_date)

\* one pass of the while loop of lines 118-120 on the loop's variables;
\* nothing changes once the loop condition fails
GenDaysPass(s) ==
    IF LoopContinues(s.d, s.end_date)
    THEN LET next == AddOneDay(s.d)
         IN [s EXCEPT !.d = next, !.dates = Append(@, next)]
    ELSE s

RECURSIVE GenDaysPasses(_, _)
\* n passes of the loop, one after the other.  The passes are evaluated in two
\* halves so that the evaluation stays shallow; the first half is complete
\* before the second starts.
GenDaysPasses(s, n) ==
    IF n = 0 THEN s
    ELSE IF n = 1 THEN GenDaysPass(s)
    ELSE LET half == GenDaysPasses(s, n \div 2)
         IN IF Len(half.dates) = 0 THEN half
            ELSE GenDaysPasses(half, n - (n \div 2))

RECURSIVE GenDaysLoop(_, _)
\* the while loop: passes until the condition fails (n, 2n, 4n, ... at a time)
GenDaysLoop(s, n) ==
    LET t == GenDaysPasses(s, n)
    IN IF LoopContinues(t.d, t.end_date) THEN GenDaysLoop(t, 2 * n) ELSE t

gen_days(y) ==
    LET start_date == Midnight(y, 1, 1)
        end_date == Midnight(y, 12, 31)
    IN GenDaysLoop([d |-> start_date, end_date |-> end_date,
                    dates |-> <<start_date>>], 1).dates

-----------------------------------------------------------------------------
(* find_matching_activities and enrich_activities *)

\* lines 103-107: same month, day and year
OnDay(activity_date, day) ==
    /\ activity_date.month = day.month
    /\ activity_date.day = day.day
    /\ activity_date.year = day.year

find_matching_activities(day, acts) ==
    SelectSeq(acts, LAMBDA a : OnDay(a.date, day))

RECURSIVE InsertByDate(_, _)
\* a placed after every element whose date is not later than its own (stable)
InsertByDate(s, a) ==
    IF s = <<>> THEN <<a>>
    ELSE IF DateLT(a.date, Head(s).date) THEN <<a>> \o s
    ELSE <<Head(s)>> \o InsertByDate(Tail(s), a)

RECURSIVE SortLoop(_, _)
SortLoop(acts, acc) ==
    IF acts = <<>> THEN acc
    ELSE SortLoop(Tail(acts), InsertByDate(acc, Head(acts)))

\* sorted(activities, key=lambda d: d["date"]): a stable sort by date
sorted(acts) == SortLoop(acts, <<>>)

RECURSIVE SumLoop(_, _)
\* lines 64-66: daily_mileage = 0; daily_mileage += match["mileage"]
SumLoop(matches, daily_mileage) ==
    IF matches = <<>> THEN daily_mileage
    ELSE SumLoop(Tail(matches), daily_mileage + Head(matches).mileage)

\* a variant of the entry of one day: the first match alone, not combined
EnrichDay_first_match(day, acts) ==
    LET matches == find_matching_activities(day, acts)
    IN IF matches = <<>>
       THEN [date |-> day, mileage |-> 0]
       ELSE [date |-> matches[1].date, mileage |-> matches[1].mileage]

\* lines 58-67: the entry appended for one day
EnrichDay(day, acts) ==
    LET matches == find_matching_activities(day, acts)
    IN IF matches = <<>>
       THEN [date |-> day, mileage |-> 0]
       ELSE [date |-> matches[1].date, mileage |-> SumLoop(matches, 0)]

enrich_activities(acts, y) ==
    LET days == gen_days(y)
        s == sorted(acts)
    IN [i \in 1..Len(days) |-> EnrichDay(days[i], s)]

-----------------------------------------------------------------------------
(* create_graph: the series (lines 73-75) *)

\* round(val, 2): micro-miles to the nearest hundredth of a mile, ties to even
round2(val) ==
    LET q == val \div MicroPerHundredth
        r == val % MicroPerHundredth
    IN IF 2 * r < MicroPerHundredth THEN q
       ELSE IF 2 * r > MicroPerHundredth THEN q + 1
       ELSE IF q % 2 = 0 THEN q ELSE q + 1

\* np.cumsum of one number: an array holding that number
CumSumScalar(v) == <<v>>

\* a variant of the step: the total is rounded before it is carried over
CumSumStep_rounding(a, s) ==
    LET total == round2(s.total + a[Len(s.out) + 1]) * MicroPerHundredth
    IN [total |-> total, out |-> Append(s.out, total)]

\* one step of the accumulation: the next element is added to the running
\* total, and the total is stored
CumSumStep(a, s) ==
    LET total == s.total + a[Len(s.out) + 1]
    IN [total |-> total, out |-> Append(s.out, total)]

RECURSIVE CumSumSteps(_, _, _)
\* n steps, one after the other (evaluated in two halves, see GenDaysPasses)
CumSumSteps(a, s, n) ==
    IF n = 0 THEN s
    ELSE IF n = 1 THEN CumSumStep(a, s)
    ELSE LET half == CumSumSteps(a, s, n \div 2)
         IN IF Len(half.out) = 0 THEN half
            ELSE CumSumSteps(a, half, n - (n \div 2))

\* np.cumsum of a flat array: the running totals
CumSum(a) == CumSumSteps(a, [total |-> 0, out |-> <<>>], Len(a)).out

\* np.cumsum flattens a tuple of arrays before it accumulates
Flatten(arrays) ==
    IF arrays = <<>> THEN <<>>
    ELSE [i \in 1..Len(arrays) |-> arrays[i][1]]

\* line 73: the second component of the unzipped pairs
PerElement(e) == [i \in 1..Len(e) |-> CumSumScalar(e[i].mileage)]

\* a variant of line 74 without the accumulation
Accumulate_no_cumsum(init) == Flatten(init)

\* line 74: y_vals = np.cumsum(y_vals_init)
Accumulate(init) == CumSum(Flatten(init))

\* line 75: y_vals = [round(val, 2) for val in y_vals]
RoundAll(vals) == [i \in 1..Len(vals) |-> round2(vals[i])]

-----------------------------------------------------------------------------
(* create_graph: the annotations (lines 84-94) *)

\* str(b) of a value with two decimals: sign, whole part, and the decimals
\* without a trailing zero ("6.21", "6.2", "12.0")
str(b) ==
    LET a == IF b < 0 THEN 0 - b ELSE b
        f == a % HundredthsPerMile
    IN [negative |-> b < 0,
        whole |-> a \div HundredthsPerMile,
        decimals |-> IF f % 10 = 0 THEN <<f \div 10>> ELSE <<f \div 10, f % 10>>]

\* a variant of the cadence: points counted from 0
OnCadence_from_zero(count) == (count - 1) % Cadence = 0

\* line 89: count % 30 == 0
OnCadence(count) == count % Cadence = 0

\* line 90: plt.annotate(xy=(a, b-25), text=str(b))
Below(a, b) == [x |-> a, y |-> b - BelowOffset * HundredthsPerMile, text |-> str(b)]

\* line 94: plt.annotate(xy=(last_a, last_b+20), text=str(last_b))
Above(a, b) == [x |-> a, y |-> b + AboveOffset * HundredthsPerMile, text |-> str(b)]

\* one pass of the for loop of lines 87-92 on count, last_a, last_b and the
\* annotations made so far
AnnotatePass(xs, ys, s) ==
    LET count == s.count + 1
        a == xs[count]
        b == ys[count]
    IN [count |-> count,
        anns |-> IF OnCadence(count) THEN Append(s.anns, Below(a, b)) ELSE s.anns,
        last_a |-> a,
        last_b |-> b]

RECURSIVE AnnotatePasses(_, _, _, _)
\* n passes, one after the other (evaluated in two halves, see GenDaysPasses)
AnnotatePasses(xs, ys, s, n) ==
    IF n = 0 THEN s
    ELSE IF n = 1 THEN AnnotatePass(xs, ys, s)
    ELSE LET half == AnnotatePasses(xs, ys, s, n \div 2)
         IN IF half.count < 0 THEN half
            ELSE AnnotatePasses(xs, ys, half, n - (n \div 2))

\* lines 84-94: the annotations of a series of at least one point
Annotations(xs, ys) ==
    LET s == AnnotatePasses(xs, ys,
                            [count |-> 0, anns |-> <<>>,
                             last_a |-> xs[1], last_b |-> ys[1]],
                            Len(xs))
    IN Append(s.anns, Above(s.last_a, s.last_b))

\* a figure before plt.plot, plt.title and plt.annotate
EmptyFigure == [plotted |-> FALSE, title |-> "", annotations |-> <<>>]

NoImage == [written |-> FALSE, name |-> ""]

-----------------------------------------------------------------------------
(* The inputs *)

\* a timestamp cell in the export's layout
TS(mon, day, y, hour, minute, second, ampm) ==
    [layout |-> StravaLayout, mon |-> mon, day |-> day, year |-> y,
     hour |-> hour, minute |-> minute, second |-> second, ampm |-> ampm]

\* "2021-08-07 00:44:45"
IsoCell == [layout |-> "Y-m-d H:M:S", mon |-> "08", day |-> 7, year |-> 2021,
            hour |-> 0, minute |-> 44, second |-> 45, ampm |-> ""]

\* "Activity Date"
TextCell == [layout |-> "text", mon |-> "", day |-> 0, year |-> 0,
             hour |-> 0, minute |-> 0, second |-> 0, ampm |-> ""]

Row(date, type, dist) == [cols |-> 7, date |-> date, type |-> type, dist |-> dist]

HeaderRow == Row(TextCell, "Activity Type", <<"D", "i", "s", "t">>)

\* an empty line of the file: csv.reader yields a row without columns
BlankRow == [cols |-> 0, date |-> TextCell, type |-> "", dist |-> <<>>]

\* the rows a file may hold after its first row
RowSet ==
    { BlankRow,
      Row(TS("Aug", 7, 2021, 5, 0, 0, "PM"), "Run", <<"1", "0">>),
      Row(TS("Aug", 7, 2021, 12, 44, 45, "AM"), "Run", <<"3">>),
      Row(TS("Sep", 1, 2021, 9, 30, 0, "AM"), "Run", <<"-", "5">>),
      Row(TS("Feb", 29, 2020, 8, 15, 0, "AM"), "Run", <<"5">>),
      Row(TS("Aug", 7, 2021, 7, 0, 0, "AM"), "Ride", <<"2", "0">>),
      Row(TS("aug", 8, 2021, 7, 0, 0, "pm"), "run", <<"7">>),
      Row(IsoCell, "Run", <<"1", "0">>),
      Row(TS("Dec", 31, 2020, 11, 59, 59, "PM"), "Run", <<"x">>) }

\* the first row: the export's header, or a data row
FirstRows ==
    { HeaderRow,
      Row(TS("Aug", 9, 2021, 6, 30, 0, "AM"), "Run", <<"8">>) }

DataRowLists == UNION { [1..n -> RowSet] : n \in 0..MaxDataRows }

\* a file that cannot be opened, an empty file, and files of a first row and
\* up to MaxDataRows further rows
Files ==
    { [exists |-> FALSE, rows |-> <<>>], [exists |-> TRUE, rows |-> <<>>] }
    \cup { [exists |-> TRUE, rows |-> <<first>> \o rows] :
               first \in FirstRows, rows \in DataRowLists }

Years == {2020, 2021}

Types == {"Run", "Ride"}

GraphNames == {"2021 Running Mileage"}

-----------------------------------------------------------------------------
(* main *)

\* line 134: the line printed
CountLine(type, count) ==
    "Number of " \o type \o " activities in year: " \o ToString(count)

Init ==
    /\ pc = "filter"
    /\ year \in Years
    /\ file \in Files
    /\ activity_type \in Types
    /\ graph_name \in GraphNames
    /\ activities = <<>>
    /\ enriched = <<>>
    /\ y_vals_init = <<>>
    /\ cumulative = <<>>
    /\ y_vals = <<>>
    /\ figure = EmptyFigure
    /\ stdout = <<>>
    /\ image = NoImage
    /\ error = NoError
    /\ events = <<>>

\* a variant of line 133 that swallows the failure and goes on with no record
FilterActivities_swallow ==
    /\ pc = "filter"
    /\ LET r == filter_activities(year, file, activity_type)
       IN activities' = IF r.ok THEN r.val ELSE <<>>
    /\ pc' = "print"
    /\ events' = Append(events, "filter")
    /\ UNCHANGED <<year, file, activity_type, graph_name, enriched, y_vals_init,
                   cumulative, y_vals, figure, stdout, image, error>>

\* line 133: activities = filter_activities(year, file, activity_type)
FilterActivities ==
    /\ pc = "filter"
    /\ LET r == filter_activities(year, file, activity_type)
       IN IF r.ok
          THEN /\ activities' = r.val
               /\ pc' = "print"
               /\ error' = error
          ELSE /\ activities' = activities
               /\ pc' = "aborted"
               /\ error' = r.err
    /\ events' = Append(events, "filter")
    /\ UNCHANGED <<year, file, activity_type, graph_name, enriched, y_vals_init,
                   cumulative, y_vals, figure, stdout, image>>

\* line 134: print(...)
PrintCount ==
    /\ pc = "print"
    /\ stdout' = Append(stdout, CountLine(activity_type, Len(activities)))
    /\ pc' = "aggregate"
    /\ events' = Append(events, "print")
    /\ UNCHANGED <<year, file, activity_type, graph_name, activities, enriched,
                   y_vals_init, cumulative, y_vals, figure, image, error>>

\* line 136: enriched = enrich_activities(activities, year)
EnrichActivities ==
    /\ pc = "aggregate"
    /\ enriched' = enrich_activities(activities, year)
    /\ pc' = "render"
    /\ events' = Append(events, "aggregate")
    /\ UNCHANGED <<year, file, activity_type, graph_name, activities, y_vals_init,
                   cumulative, y_vals, figure, stdout, image, error>>

\* line 138: create_graph(enriched, graph_name).  The unpacking of line 73 raises
\* ValueError on an empty list; savefig raises OSError when the path is not writable.
\* The line plotted is y_vals over the dates of enriched (x_vals of line 73).
CreateGraph ==
    /\ pc = "render"
    /\ \E writable \in BOOLEAN :
         IF enriched = <<>>
         THEN /\ error' = "ValueError"
              /\ pc' = "aborted"
              /\ events' = Append(events, "render")
              /\ UNCHANGED <<y_vals_init, cumulative, y_vals, figure, image>>
         ELSE LET x_vals == [i \in 1..Len(enriched) |-> enriched[i].date]
                  init == PerElement(enriched)
                  cum == Accumulate(init)
                  ys == RoundAll(cum)
                  fig == [plotted |-> TRUE, title |-> graph_name,
                          annotations |-> Annotations(x_vals, ys)]
              IN /\ y_vals_init' = init
                 /\ cumulative' = cum
                 /\ y_vals' = ys
                 /\ figure' = fig
                 /\ events' = events \o <<"render", "write">>
                 /\ IF writable
                    THEN /\ image' = [written |-> TRUE,
                                      name |-> graph_name \o ".png"]
                         /\ pc' = "done"
                         /\ error' = error
                    ELSE /\ image' = image
                         /\ pc' = "aborted"
                         /\ error' = "OSError"
    /\ UNCHANGED <<year, file, activity_type, graph_name, activities, enriched, stdout>>

Next == FilterActivities \/ PrintCount \/ EnrichActivities \/ CreateGraph

Spec == Init /\ [][Next]_vars

-----------------------------------------------------------------------------
(* enrich_activities called on its own, with any list of records *)

Act(date, mileage) == [date |-> date, mileage |-> mileage]

ActSet ==
    { Act(DateTime(2021, 8, 7, 17, 0, 0), 3000000),
      Act(DateTime(2021, 8, 7, 0, 44, 45), 4000000),
      Act(DateTime(2020, 8, 7, 0, 44, 45), 10000000),
      Act(DateTime(2020, 2, 29, 8, 15, 0), ToMiles(5)),
      Act(DateTime(2021, 12, 31, 23, 59, 59), 1000000),
      Act(DateTime(2022, 1, 1, 0, 0, 0), 2000000),
      Act(DateTime(2000, 2, 29, 12, 0, 0), ToMiles(10)),
      Act(DateTime(1900, 3, 1, 6, 0, 0), 500000) }

ActLists == UNION { [1..n -> ActSet] : n \in 0..MaxActs }

EnrichYears == {1900, 2000, 2020, 2021}

InitEnrich ==
    /\ pc = "aggregate"
    /\ year \in EnrichYears
    /\ activities \in ActLists
    /\ file = [exists |-> FALSE, rows |-> <<>>]
    /\ activity_type = "Run"
    /\ graph_name \in GraphNames
    /\ enriched = <<>>
    /\ y_vals_init = <<>>
    /\ cumulative = <<>>
    /\ y_vals = <<>>
    /\ figure = EmptyFigure
    /\ stdout = <<>>
    /\ image = NoImage
    /\ error = NoError
    /\ events = <<>>

NextEnrich == EnrichActivities

SpecEnrich == InitEnrich /\ [][NextEnrich]_vars

-----------------------------------------------------------------------------
(* create_graph called on its own, with any sequence of daily entries *)

\* the mileage of entry i, in micro-miles, for a few shapes of a year
Pattern(p, i) ==
    CASE p = "rest" -> 0
      [] p = "daily" -> ToMiles(1)
      [] p = "weekly" -> IF i % 7 = 0 THEN ToMiles(10) ELSE 0
      [] p = "halves" -> IF i % 3 = 1 THEN 5000 ELSE IF i % 3 = 0 THEN 5000000 ELSE 0
      [] p = "debt" -> IF i = 1 THEN 0 - 3500000 ELSE 1000000

Patterns == {"rest", "daily", "weekly", "halves", "debt"}

\* the first n days of year y, each with the mileage of pattern p
Entries(y, n, p) ==
    LET days == gen_days(y)
    IN [i \in 1..n |-> [date |-> days[i], mileage |-> Pattern(p, i)]]

Lengths(y) == (0..MaxPoints) \cup {IF IsLeap(y) THEN 366 ELSE 365}

InitGraph ==
    /\ pc = "render"
    /\ year \in Years
    /\ \E n \in Lengths(year), p \in Patterns : enriched = Entries(year, n, p)
    /\ activities = <<>>
    /\ file = [exists |-> FALSE, rows |-> <<>>]
    /\ activity_type = "Run"
    /\ graph_name \in GraphNames
    /\ y_vals_init = <<>>
    /\ cumulative = <<>>
    /\ y_vals = <<>>
    /\ figure = EmptyFigure
    /\ stdout = <<>>
    /\ image = NoImage
    /\ error = NoError
    /\ events = <<>>

NextGraph == CreateGraph

SpecGraph == InitGraph /\ [][NextGraph]_vars

-----------------------------------------------------------------------------
(* The calendar, stated on its own for the properties below *)

\* the number of days of year y
YearLength(y) ==
    IF (y % 4 = 0 /\ y % 100 # 0) \/ y % 400 = 0 THEN 366 ELSE 365

\* the days of year y before its month m
DaysBefore(y, m) ==
    <<0, 31, 59, 90, 120, 151, 181, 212, 243, 273, 304, 334>>[m]
        + (IF YearLength(y) = 366 /\ m > 2 THEN 1 ELSE 0)

\* the position of a date in its year, January 1 being 1
DayOfYear(d) == DaysBefore(d.year, d.month) + d.day

\* the calendar days (month, day) of year y
CalendarDays(y) ==
    { md \in (1..12) \X (1..31) :
        md[2] <= (IF md[1] = 12 THEN YearLength(y) ELSE DaysBefore(y, md[1] + 1))
                    - DaysBefore(y, md[1]) }

RECURSIVE SetSum(_, _)
\* the sum of f over the set K of its indices
SetSum(f, K) ==
    IF K = {} THEN 0
    ELSE LET k == CHOOSE x \in K : TRUE
         IN f[k] + SetSum(f, K \ {k})

-----------------------------------------------------------------------------
(* C1 *)

\* C1: enrich_activities returns one entry per calendar day of the target year:
\* as many entries as the year has days (366 with February 29 in 2020, 365 in
\* 2021), the i-th entry dated on the i-th day of the year, so that the entries
\* run from January 1 to December 31 without a gap or a repeated day.
C1_OneEntryPerDay ==
    pc = "render" =>
        /\ Len(enriched) = YearLength(year)
        /\ \A i \in 1..Len(enriched) :
              /\ enriched[i].date.year = year
              /\ DayOfYear(enriched[i].date) = i
        /\ enriched[1].date.month = 1 /\ enriched[1].date.day = 1
        /\ enriched[Len(enriched)].date.month = 12
        /\ enriched[Len(enriched)].date.day = 31
        /\ year = 2020 => /\ Len(enriched) = 366
                          /\ enriched[60].date.month = 2
                          /\ enriched[60].date.day = 29
        /\ year = 2021 => Len(enriched) = 365

\* a leap year aggregated from two records, one of them on February 29
C1_Witness ==
    /\ pc = "render"
    /\ year = 2020
    /\ Len(activities) = 2
    /\ \E k \in 1..2 : activities[k].date.month = 2 /\ activities[k].date.day = 29
    /\ Len(enriched) = 366
    /\ enriched[60].mileage > 0

-----------------------------------------------------------------------------
(* C2 *)

\* the records of the input that fall on day (m, d) of year y
RecordsOn(y, m, d) ==
    { k \in DOMAIN activities :
        /\ activities[k].date.year = y
        /\ activities[k].date.month = m
        /\ activities[k].date.day = d }

\* C2: for every calendar day D of the target year, the entry for D carries the
\* sum of the mileage of all input records dated on D, whatever their time of
\* day and their order in the input; with no record on D it carries 0 and the
\* date D at midnight.
C2_DailySum ==
    pc = "render" =>
        \A md \in CalendarDays(year) :
            LET D == Midnight(year, md[1], md[2])
                K == RecordsOn(year, md[1], md[2])
                entry == enriched[DayOfYear(D)]
            IN /\ entry.mileage = SetSum([k \in K |-> activities[k].mileage], K)
               /\ K = {} => entry.mileage = 0 /\ entry.date = D

\* records of 3.0 and 4.0 miles on August 7 2021, the later one listed first,
\* give 7.0 miles for that day
C2_Witness ==
    /\ pc = "render"
    /\ year = 2021
    /\ Len(activities) = 2
    /\ activities[1] = Act(DateTime(2021, 8, 7, 17, 0, 0), 3000000)
    /\ activities[2] = Act(DateTime(2021, 8, 7, 0, 44, 45), 4000000)
    /\ enriched[219].mileage = 7000000
    /\ enriched[218].mileage = 0

-----------------------------------------------------------------------------
(* C3 *)

\* create_graph has built its series (it may still have failed to save)
SeriesBuilt == pc \in {"done", "aborted"} /\ enriched # <<>>

RECURSIVE RangeSum(_, _, _)
\* the sum of the mileage of entries lo..hi of e
RangeSum(e, lo, hi) ==
    IF lo > hi THEN 0
    ELSE IF lo = hi THEN e[lo].mileage
    ELSE LET mid == (lo + hi) \div 2
         IN RangeSum(e, lo, mid) + RangeSum(e, mid + 1, hi)

\* h hundredths is val micro-miles rounded to two decimals
IsRounded(h, val) ==
    LET diff == h * MicroPerHundredth - val
        dist == IF diff < 0 THEN 0 - diff ELSE diff
    IN /\ 2 * dist <= MicroPerHundredth
       /\ 2 * dist = MicroPerHundredth => h % 2 = 0

\* C3: the value plotted at index i is the sum of the daily mileage at indices
\* up to i, rounded to two decimals; the per-element cumsum leaves each value as
\* it is, and the totals are accumulated unrounded.
C3_PrefixSum ==
    SeriesBuilt =>
        /\ Len(y_vals) = Len(enriched)
        /\ figure.plotted
        /\ \A i \in 1..Len(enriched) :
              /\ y_vals_init[i] = <<enriched[i].mileage>>
              /\ cumulative[i] = RangeSum(enriched, 1, i)
              /\ IsRounded(y_vals[i], RangeSum(enriched, 1, i))

\* four days of one kilometre: 2.485484 miles, plotted as 2.49 (adding to the
\* rounded 1.86 of the third day would give 2.48)
C3_Witness ==
    /\ pc = "done"
    /\ Len(enriched) >= 4
    /\ \A i \in 1..4 : enriched[i].mileage = ToMiles(1)
    /\ y_vals[3] = 186
    /\ cumulative[4] = 2485484
    /\ y_vals[4] = 249

-----------------------------------------------------------------------------
(* C8 *)

\* C8: the series construction at the start of create_graph handles a sequence
\* of one entry and an empty sequence without error, and yields a series of one
\* element and an empty series.
C8_DegenerateHandled ==
    (pc # "render" /\ Len(enriched) <= 1) =>
        /\ error # "ValueError"
        /\ Len(cumulative) = Len(enriched)
        /\ Len(y_vals) = Len(enriched)

-----------------------------------------------------------------------------
(* C9 *)

\* the number a label shows, in hundredths
LabelValue(t) ==
    LET dec == IF Len(t.decimals) = 1 THEN 10 * t.decimals[1]
               ELSE 10 * t.decimals[1] + t.decimals[2]
        a == HundredthsPerMile * t.whole + dec
    IN IF t.negative THEN 0 - a ELSE a

\* C9: for n >= 1 points the annotations are, in order, one below each point at
\* a 1-indexed position that is a multiple of 30, labelled with that point's
\* rounded value, and then one above the final point labelled with the final
\* value, also when n is a multiple of 30; a year of 365 or 366 days has 12
\* cadence annotations and the final one.
C9_Annotations ==
    SeriesBuilt =>
        LET n == Len(enriched)
            c == n \div 30
            A == figure.annotations
        IN /\ Len(A) = c + 1
           /\ \A j \in 1..c :
                 /\ A[j].x = enriched[30 * j].date
                 /\ A[j].y = y_vals[30 * j] - 2500
                 /\ LabelValue(A[j].text) = y_vals[30 * j]
           /\ \A k \in 1..n :
                 (\E j \in 1..c : A[j].x = enriched[k].date) <=> (k % 30 = 0)
           /\ A[c + 1].x = enriched[n].date
           /\ A[c + 1].y = y_vals[n] + 2000
           /\ LabelValue(A[c + 1].text) = y_vals[n]
           /\ n \in {365, 366} => Len(A) = 13

\* sixty points: the sixtieth is annotated below the line and again above it
C9_Witness ==
    /\ pc = "done"
    /\ Len(enriched) = 60
    /\ Len(figure.annotations) = 3
    /\ figure.annotations[2].x = figure.annotations[3].x
    /\ figure.annotations[2].y < figure.annotations[3].y
    /\ y_vals[60] > 0

-----------------------------------------------------------------------------
(* The rows of the file, for the properties of the filter *)

\* the rows after the first
DataRows == 2..Len(file.rows)

\* the row has a timestamp cell that does not match the format
BadTimestamp(row) == HasCol(row, 1) /\ ~strptime(row.date).ok

\* the row has a distance cell that is not numeric
NonNumeric(row) == HasCol(row, 6) /\ ~float(row.dist).ok

\* the row carries the requested label and a timestamp of the target year
Kept(row) ==
    /\ HasCol(row, 3)
    /\ row.type = activity_type
    /\ strptime(row.date).ok
    /\ strptime(row.date).val.year = year

\* filter_activities has returned its list to main
FilterReturned ==
    \/ pc \in {"print", "aggregate", "render", "done"}
    \/ pc = "aborted" /\ Len(events) > 1

\* filter_activities has raised, and main with it
FilterFailed == pc = "aborted" /\ events = <<"filter">>

\* the j-th smallest element of the set K of numbers
Nth(K, j) == CHOOSE k \in K : Cardinality({x \in K : x < k}) = j - 1

-----------------------------------------------------------------------------
(* C4 *)

Monotone(vals) == \A i \in 2..Len(vals) : vals[i] >= vals[i - 1]

NonNegative(recs) == \A i \in 1..Len(recs) : recs[i].mileage >= 0

\* C4 as stated: for every file processed without error the cumulative mileage
\* never decreases, and every record and every daily mileage is non-negative.
C4_MonotoneAnyFile ==
    pc = "done" =>
        /\ Monotone(y_vals)
        /\ Monotone(cumulative)
        /\ NonNegative(activities)
        /\ NonNegative(enriched)

\* no kept row has a negative distance
NoNegativeDistance ==
    \A k \in DataRows :
        (Kept(file.rows[k]) /\ float(file.rows[k].dist).ok)
            => float(file.rows[k].dist).val >= 0

\* C4 amended: the same for every file processed without error in which no
\* kept row has a negative distance.
C4_MonotoneNonNegative ==
    (pc = "done" /\ NoNegativeDistance) =>
        /\ Monotone(y_vals)
        /\ Monotone(cumulative)
        /\ NonNegative(activities)
        /\ NonNegative(enriched)

\* a run over two kept records: the series rises on August 7 and stays
C4_Witness ==
    /\ pc = "done"
    /\ NoNegativeDistance
    /\ Len(activities) = 2
    /\ y_vals[218] = 0
    /\ y_vals[219] > y_vals[218]
    /\ y_vals[365] = y_vals[219]

-----------------------------------------------------------------------------
(* C5 *)

\* C5: filter_activities returns, in input order, one record for exactly the
\* rows after the first whose label is the requested one, letter for letter,
\* and whose timestamp is of the requested year; the mileage of a record is the
\* distance of its row times 0.621371; the first row gives no record.
C5_FilterResult ==
    FilterReturned =>
        LET K == { k \in DataRows : Kept(file.rows[k]) }
        IN /\ Len(activities) = Cardinality(K)
           /\ \A j \in 1..Len(activities) :
                 LET row == file.rows[Nth(K, j)]
                 IN /\ activities[j].date = strptime(row.date).val
                    /\ float(row.dist).ok
                    /\ activities[j].mileage = float(row.dist).val * 621371

\* a file whose first row is a well-formed Run of 2021: the two rows after it
\* give the two records, in the order of the file, and the first row gives none
C5_Witness ==
    /\ FilterReturned
    /\ year = 2021
    /\ activity_type = "Run"
    /\ Len(file.rows) = 3
    /\ Kept(file.rows[1])
    /\ activities = << Act(DateTime(2021, 8, 7, 17, 0, 0), 6213710),
                       Act(DateTime(2021, 8, 7, 0, 44, 45), 1864113) >>

-----------------------------------------------------------------------------
(* C6 *)

\* C6 as stated: the filter fails whenever any row after the first has a
\* timestamp that does not match the format or a distance that is not
\* numeric, whatever the label and the year of that row.
C6_AnyBadRowFails ==
    (/\ pc # "filter"
     /\ file.exists
     /\ \E k \in DataRows : BadTimestamp(file.rows[k]) \/ NonNumeric(file.rows[k]))
        => FilterFailed

\* C6 amended: the filter fails, with no record returned, whenever a row after
\* the first carries the requested label and either a timestamp that does not
\* match the format, or a timestamp of the target year and a distance that is
\* not numeric.
C6_KeptBadRowFails ==
    (/\ pc # "filter"
     /\ file.exists
     /\ \E k \in DataRows :
           LET row == file.rows[k]
           IN /\ HasCol(row, 3)
              /\ row.type = activity_type
              /\ \/ BadTimestamp(row)
                 \/ Kept(row) /\ NonNumeric(row))
        => /\ FilterFailed
           /\ error \in {"ValueError", "IndexError"}
           /\ activities = <<>>

\* a well-formed row of the target year followed by a row of the target year
\* whose distance is not numeric: the run fails, the first record is not kept
C6_Witness ==
    /\ FilterFailed
    /\ error = "ValueError"
    /\ Len(file.rows) = 3
    /\ Kept(file.rows[2]) /\ float(file.rows[2].dist).ok
    /\ Kept(file.rows[3]) /\ NonNumeric(file.rows[3])
    /\ activities = <<>>

-----------------------------------------------------------------------------
(* C7 *)

Order == <<"filter", "print", "aggregate", "render", "write">>

IsPrefix(s, t) == Len(s) <= Len(t) /\ \A i \in 1..Len(s) : s[i] = t[i]

\* C7: the steps of main occur in the order filter, print, aggregate, render,
\* write, each at most once; when filtering fails the run ends there, with no
\* count line and no image; an image is written only after filtering and
\* aggregation have completed.
C7_PipelineOrder ==
    /\ IsPrefix(events, Order)
    /\ Len(stdout) = (IF Len(events) >= 2 THEN 1 ELSE 0)
    /\ (pc # "filter" /\ ~filter_activities(year, file, activity_type).ok)
          => /\ FilterFailed
             /\ error = filter_activities(year, file, activity_type).err
             /\ stdout = <<>>
             /\ ~image.written
    /\ FilterFailed => ~filter_activities(year, file, activity_type).ok
    /\ image.written
          => /\ pc = "done"
             /\ events = Order
             /\ activities = filter_activities(year, file, activity_type).val
             /\ Len(enriched) = YearLength(year)

\* a complete run: the count line was printed and the image written
C7_Witness ==
    /\ pc = "done"
    /\ events = Order
    /\ stdout = <<"Number of Run activities in year: 2">>
    /\ image.written
    /\ image.name = "2021 Running Mileage.png"

-----------------------------------------------------------------------------
(* C10 *)

\* C10: in a run that completes, the last cumulative value before rounding is
\* the sum of the mileage of the records the filter returned: every record is
\* counted on exactly one day of the year.
C10_Conservation ==
    pc = "done" =>
        /\ cumulative[Len(cumulative)]
              = SetSum([k \in DOMAIN activities |-> activities[k].mileage],
                       DOMAIN activities)
        /\ \A k \in DOMAIN activities :
              Cardinality({ i \in DOMAIN enriched :
                              /\ enriched[i].date.year = activities[k].date.year
                              /\ enriched[i].date.month = activities[k].date.month
                              /\ enriched[i].date.day = activities[k].date.day }) = 1

\* a complete run of year 2020 over a file that also holds a row of 2021: the
\* total is the 5 kilometres of the one record of 2020
C10_Witness ==
    /\ pc = "done"
    /\ year = 2020
    /\ Len(file.rows) = 3
    /\ \E k \in DataRows : /\ strptime(file.rows[k].date).ok
                           /\ strptime(file.rows[k].date).val.year = 2021
                           /\ file.rows[k].type = activity_type
    /\ Len(activities) = 1
    /\ cumulative[366] = 3106855

=============================================================================
